---------------------------- MODULE Spec2Model ----------------------------
(***************************************************************************)
(* Model of the model-lifecycle core of the student dropout system:        *)
(* ModelMaintenance (src/model-maintaince.py) over the artifact store       *)
(* (the file at model_path, the active slot, and model_path + ".backup",   *)
(* the backup slot).                                                        *)
(*                                                                          *)
(* Metrics are Python floats.  An accuracy of k hundredths is the IEEE-754  *)
(* double nearest k/100, and the comparisons of the code are made on        *)
(* doubles, so the model carries doubles as exact fixed-point numbers and   *)
(* rounds every arithmetic result to 53 significant bits, as the hardware   *)
(* does.                                                                    *)
(***************************************************************************)
EXTENDS Integers, Sequences, FiniteSets, TLC

(***************************************************************************)
(* IEEE-754 binary64 arithmetic on the values the code computes with.      *)
(* A double x, 0 <= x < 4, is the integer x * 2^60 held in three limbs of  *)
(* 20 bits: [hi, mid, lo] stands for hi * 2^40 + mid * 2^20 + lo.  Every   *)
(* double >= 2^-7 is a multiple of 2^-59, so sums and differences of the   *)
(* metrics are exact in this form before they are rounded.                 *)
(***************************************************************************)
RECURSIVE Pow2(_)
Pow2(n) == IF n = 0 THEN 1 ELSE 2 * Pow2(n - 1)

Limb == Pow2(20)

RECURSIVE BitLen(_)
BitLen(x) == IF x = 0 THEN 0 ELSE 1 + BitLen(x \div 2)

\* Carry propagation: limbs brought back into 0 .. Limb - 1 (hi keeps the rest).
Normalize(h, m, l) ==
    LET m1 == m + (l \div Limb)
    IN  [hi |-> h + (m1 \div Limb), mid |-> m1 % Limb, lo |-> l % Limb]

NumBits(x) ==
    IF x.hi > 0 THEN 40 + BitLen(x.hi)
    ELSE IF x.mid > 0 THEN 20 + BitLen(x.mid)
    ELSE BitLen(x.lo)

\* Round to nearest, ties to even, keeping 53 significant bits.  sticky says
\* that the exact value lies strictly above x (bits were already cut off).
Round53(x, sticky) ==
    LET s == NumBits(x) - 53
    IN  IF s <= 0 THEN x
        ELSE LET unit == Pow2(s)
                 half == Pow2(s - 1)
                 r    == x.lo % unit
                 odd  == ((x.lo \div unit) % 2) = 1
                 up   == r > half \/ (r = half /\ (sticky \/ odd))
             IN  Normalize(x.hi, x.mid, x.lo - r + (IF up THEN unit ELSE 0))

\* The double nearest k/100: what the literal 0.02 denotes (k = 2) and what the
\* division count / 100 of accuracy_score returns.
FromHundredths(k) ==
    LET h  == k * Limb              \* k * 2^60 = h * 2^40
        qh == h \div 100
        r1 == h % 100
        qm == (r1 * Limb) \div 100
        r2 == (r1 * Limb) % 100
        ql == (r2 * Limb) \div 100
        r3 == (r2 * Limb) % 100
    IN  Round53([hi |-> qh, mid |-> qm, lo |-> ql], r3 > 0)

FloatLt(x, y) ==
    \/ x.hi < y.hi
    \/ x.hi = y.hi /\ x.mid < y.mid
    \/ x.hi = y.hi /\ x.mid = y.mid /\ x.lo < y.lo

FloatGt(x, y) == FloatLt(y, x)

FloatAdd(x, y) ==
    Round53(Normalize(x.hi + y.hi, x.mid + y.mid, x.lo + y.lo), FALSE)

\* x - y for x >= y (the callers test the sign first).
FloatSub(x, y) ==
    LET l  == x.lo - y.lo
        bl == IF l < 0 THEN 1 ELSE 0
        m  == x.mid - y.mid - bl
        bm == IF m < 0 THEN 1 ELSE 0
    IN  Round53([hi  |-> x.hi - y.hi - bm,
                 mid |-> m + bm * Limb,
                 lo  |-> l + bl * Limb], FALSE)

(***************************************************************************)
(* Program constants.                                                       *)
(***************************************************************************)
\* len(new_data) < 10 raises "Insufficient data for retraining".
MinRetrainSamples == 10
\* new_accuracy > old_accuracy + 0.02 and new_f1 > old_f1 + 0.02, in hundredths.
AbMargin == 2
\* accuracy_drop > 0.05, in hundredths.
DriftThreshold == 5
\* probability < 0.3 is "Green", probability < 0.7 is "Amber", in hundredths.
GreenBelow == 30
AmberBelow == 70
\* self.high_risk_threshold = 0.7, in hundredths.
high_risk_threshold == 70

(***************************************************************************)
(* Bounds of the model.                                                     *)
(***************************************************************************)
\* Training passes (successful fits) one behaviour may hold.
MaxRetrains == 2
\* Snapshots the performance history may hold.
MaxHistory == 2
\* Records one batch of students may hold.
MaxBatch == 5
\* The latest reading of the clock during one batch.
MaxClock == 1
\* Tasks one run of start_monitoring may carry out.
MaxTasks == 2
\* The largest batch, in rows.
MaxRows == 11

\* Row counts of the batches handed to retrain_model.
RetrainRows == {0, 5, MinRetrainSamples - 1, MinRetrainSamples, MaxRows}
\* Row counts of the batches handed to check_model_drift and run_ab_test.
LabeledRows == {0, MaxRows}
Batches(rows) == [rows : rows, hasTarget : BOOLEAN]

\* Metric values, in hundredths: accuracy_score and f1_score of a batch.
\* The accuracies the lifecycle specification draws for check_model_drift.
LifecycleDriftGrid == {84, 90}
DriftF1Grid == {50}
HoldoutGrid == {70, 90}
\* The accuracies the drift specification draws for check_model_drift.
DriftGrid == {78, 82, 84, 85, 86, 90}
\* The metrics the lifecycle specification draws for run_ab_test.
LifecycleGrid == {68, 71}
\* The metrics the arbitration specification draws for run_ab_test.
ArbitrationGrid == {0, 12, 13, 14, 15, 17, 50, 68, 69, 70, 71, 77, 79, 80, 100}

(***************************************************************************)
(* The artifact store.  A slot is a file: absent, a complete pickle of an   *)
(* artifact, or the torn remains of a dump that failed part-way.  The       *)
(* fields of an artifact name the training pass that fitted or derived      *)
(* them; pass 0 is the initial training, outside this code.                 *)
(***************************************************************************)
NoArtifact ==
    [model |-> -1, scaler |-> -1, label_encoders |-> -1, feature_names |-> -1]
InitialArtifact ==
    [model |-> 0, scaler |-> 0, label_encoders |-> 0, feature_names |-> 0]

Missing == [kind |-> "missing", content |-> NoArtifact]
Corrupt == [kind |-> "corrupt", content |-> NoArtifact]
Stored(a) == [kind |-> "artifact", content |-> a]
Loadable(slot) == slot.kind = "artifact"

\* joblib.load(path): the error it raises, or "ok".
LoadError(slot) ==
    CASE slot.kind = "missing" -> "FileNotFoundError"
      [] slot.kind = "corrupt" -> "Exception"
      [] OTHER -> "ok"

\* joblib.dump(value, path) with outcome "ok", "refused" (the file could not be
\* opened: it is left as it was) or "torn" (the write failed part-way).
DumpOutcomes == {"ok", "refused", "torn"}
Dump(slot, value, outcome) ==
    CASE outcome = "ok" -> Stored(value)
      [] outcome = "torn" -> Corrupt
      [] OTHER -> slot

\* Mutant: the scaler of the artifact loaded is kept.
NewArtifacts_OldScaler(pass, old_artifacts) ==
    [model |-> pass, scaler |-> old_artifacts.scaler,
     label_encoders |-> old_artifacts.label_encoders,
     feature_names |-> old_artifacts.feature_names]

\* Mutant: the feature order is taken from the columns of the batch.
NewArtifacts_BatchColumns(pass, old_artifacts) ==
    [model |-> pass, scaler |-> pass,
     label_encoders |-> old_artifacts.label_encoders,
     feature_names |-> pass]

\* new_artifacts of retrain_model: model and scaler of this pass, encoders and
\* feature order taken over from the artifact loaded.
NewArtifacts(pass, old_artifacts) ==
    [model |-> pass, scaler |-> pass,
     label_encoders |-> old_artifacts.label_encoders,
     feature_names |-> old_artifacts.feature_names]

\* Mutant: the new artifact is saved before the old one is backed up.
RetrainWrites_SaveFirst == <<"active", "backup">>

\* The dumps of retrain_model, in program order.
RetrainWrites == <<"backup", "active">>

\* Mutant: the backup is made of the artifact just built.
DumpValue_BackupOfNew(slot, c) == c.new_artifacts

\* What each dump writes: old_artifacts to the backup, new_artifacts to the
\* active slot.
DumpValue(slot, c) ==
    IF slot = "backup" THEN c.old_artifacts ELSE c.new_artifacts

\* Mutant: a failed backup is logged and the save goes ahead.
DumpAborts_BackupSwallowed(slot, outcome) == outcome # "ok" /\ slot # "backup"

\* A dump that raises ends the call: nothing between the dump and the except
\* clauses catches it.
DumpAborts(slot, outcome) == outcome # "ok"

\* Mutant: a batch of exactly the minimum is turned away.
InsufficientRows_Inclusive(n) == n <= MinRetrainSamples

\* The precondition checks of retrain_model, in program order.
InsufficientRows(n) == n < MinRetrainSamples
RetrainRejection(batch) ==
    CASE batch.rows = 0 -> "empty"
      [] ~batch.hasTarget -> "no_target"
      [] InsufficientRows(batch.rows) -> "insufficient"
      [] OTHER -> "ok"

\* The float a metric of k hundredths is (the doubles are computed once).
Hundredths == 0 .. 100
DoubleOf == [k \in Hundredths |-> FromHundredths(k)]
D(k) == DoubleOf[k]

\* The decision of run_ab_test on the four metrics.
PlusMargin == [k \in Hundredths |-> FloatAdd(D(k), D(AbMargin))]
ExceedsMargin(new, old) == FloatGt(D(new), PlusMargin[old])
\* Mutant: one metric clearing its margin is enough.
AbDecision_Either(m) ==
    IF ExceedsMargin(m.new_accuracy, m.old_accuracy)
       \/ ExceedsMargin(m.new_f1, m.old_f1)
    THEN "new" ELSE "old"

AbDecision(m) ==
    IF ExceedsMargin(m.new_accuracy, m.old_accuracy)
       /\ ExceedsMargin(m.new_f1, m.old_f1)
    THEN "new" ELSE "old"

\* Mutant: with no incumbent on file the candidate is taken.
AbErrorVerdict_NoIncumbent(error) ==
    IF error = "FileNotFoundError" THEN "new" ELSE "old"

\* What the except clauses of run_ab_test return.
AbErrorVerdict(error) == "old"

\* The drift test of check_model_drift on the last two accuracies.
DriftDetected(previous, accuracy) ==
    /\ FloatGt(D(previous), D(accuracy))
    /\ FloatGt(FloatSub(D(previous), D(accuracy)), D(DriftThreshold))

(***************************************************************************)
(* Records and the predictor.  A record is a dict: its items in insertion   *)
(* order, each a <<key, value>> pair, the keys distinct.  A value is a      *)
(* number or a string.  A DataFrame of one row is written the same way, its *)
(* columns in column order.                                                 *)
(***************************************************************************)
Num(n) == [isnum |-> TRUE, n |-> n, s |-> ""]
Str(s) == [isnum |-> FALSE, n |-> 0, s |-> s]

Columns(d) == [i \in DOMAIN d |-> d[i][1]]
Values(d) == [i \in DOMAIN d |-> d[i][2]]
Keys(d) == {d[i][1] : i \in DOMAIN d}
\* d.get(key, default)
Get(d, key, default) ==
    IF key \in Keys(d)
    THEN d[CHOOSE i \in DOMAIN d : d[i][1] = key][2]
    ELSE default
\* df[key] = value: an existing column keeps its place, a new one goes last.
SetItem(d, key, value) ==
    IF key \in Keys(d)
    THEN [i \in DOMAIN d |-> IF d[i][1] = key THEN <<key, value>> ELSE d[i]]
    ELSE Append(d, <<key, value>>)

\* The artifact the predictor loaded: the feature order of training and the
\* fitted encoders (classes_ of a LabelEncoder is sorted).
feature_names == <<"gender", "age", "fee_default_rate">>
label_encoders == [gender |-> <<"F", "M">>]

\* x in encoder.classes_
InClasses(classes, x) ==
    ~x.isnum /\ \E i \in DOMAIN classes : classes[i] = x.s

\* Mutant: an unseen category is mapped to the last known one.
KnownOrFirst_Last(classes, x) ==
    IF InClasses(classes, x) THEN x.s ELSE classes[Len(classes)]

\* x if x in encoder.classes_ else encoder.classes_[0]
KnownOrFirst(classes, x) ==
    IF InClasses(classes, x) THEN x.s ELSE classes[1]

\* encoder.transform: the place of the category among classes_, from 0.
Transform(classes, category) ==
    Num((CHOOSE i \in DOMAIN classes : classes[i] = category) - 1)

\* The encoding loop: every encoder whose column the record has.
RECURSIVE ApplyEncoders(_, _)
ApplyEncoders(df, cols) ==
    IF cols = {} THEN df
    ELSE LET col == CHOOSE c \in cols : TRUE
             encoded ==
                 IF col \in Keys(df)
                 THEN SetItem(df, col,
                              Transform(label_encoders[col],
                                        KnownOrFirst(label_encoders[col],
                                                     Get(df, col, Num(0)))))
                 ELSE df
         IN  ApplyEncoders(encoded, cols \ {col})

\* Mutant: a feature the record lacks is filled with 1.
AddMissing_One(df, feature) ==
    IF feature \in Keys(df) THEN df ELSE SetItem(df, feature, Num(1))

\* if feature not in df.columns: df[feature] = 0
AddMissing(df, feature) ==
    IF feature \in Keys(df) THEN df ELSE SetItem(df, feature, Num(0))

RECURSIVE EnsureFeatures(_, _)
EnsureFeatures(df, features) ==
    IF features = <<>> THEN df
    ELSE EnsureFeatures(AddMissing(df, Head(features)), Tail(features))

\* Mutant: the columns are left in the order the record had them.
Reorder_AsGiven(df, names) == df

\* df[names]: the named columns, in the order named.
Reorder(df, names) ==
    [i \in DOMAIN names |-> <<names[i], Get(df, names[i], Num(0))>>]

\* preprocess_new_student(student_data): the row handed to the scaler.
PreprocessNewStudent(record) ==
    Reorder(EnsureFeatures(ApplyEncoders(record, DOMAIN label_encoders),
                           feature_names),
            feature_names)

\* scaler.transform(processed_data) raises ValueError on a row of another
\* width than the scaler was fitted on, and on a value that is no number.
ScalerAccepts(df) ==
    /\ Len(df) = Len(feature_names)
    /\ \A i \in DOMAIN df : df[i][2].isnum

\* The fitted scaler and model are data of the artifact, not code: they read
\* the row by position.  Here the probability of dropout, in hundredths, is
\* the value at the place of fee_default_rate.
PredictProba(df) == df[3][2].n
\* model.predict: the likelier class.
Predict(df) == IF PredictProba(df) > 50 THEN 1 ELSE 0

\* Mutant: a probability of exactly 0.7 is still Amber.
RiskLevel_AmberInclusive(probability) ==
    IF FloatLt(D(probability), D(GreenBelow)) THEN "Green"
    ELSE IF ~FloatGt(D(probability), D(AmberBelow)) THEN "Amber"
    ELSE "Red"

\* The risk level of a probability (in hundredths), on floats as in the code.
RiskLevel(probability) ==
    IF FloatLt(D(probability), D(GreenBelow)) THEN "Green"
    ELSE IF FloatLt(D(probability), D(AmberBelow)) THEN "Amber"
    ELSE "Red"

NoPrediction ==
    [outcome |-> "none", prediction |-> -1, probability |-> -1,
     risk_level |-> ""]

\* predict_dropout_risk(student_data): the tuple returned, or the error
\* raised.
PredictDropoutRisk(record) ==
    LET df == PreprocessNewStudent(record)
    IN  IF ScalerAccepts(df)
        THEN [outcome |-> "ok", prediction |-> Predict(df),
              probability |-> PredictProba(df),
              risk_level |-> RiskLevel(PredictProba(df))]
        ELSE [outcome |-> "ValueError", prediction |-> -1, probability |-> -1,
              risk_level |-> ""]

\* The two shapes of an entry of predict_batch.
\* Mutant: the time of the call finds its way into the prediction.
SuccessEntry_TimeInPrediction(record, scored, timestamp) ==
    [student_id |-> Get(record, "student_id", Str("unknown")),
     prediction |-> timestamp,
     probability |-> scored.probability,
     risk_level |-> scored.risk_level,
     timestamp |-> timestamp]

SuccessEntry(record, scored, timestamp) ==
    [student_id |-> Get(record, "student_id", Str("unknown")),
     prediction |-> scored.prediction,
     probability |-> scored.probability,
     risk_level |-> scored.risk_level,
     timestamp |-> timestamp]
ErrorEntry(record, error) ==
    [student_id |-> Get(record, "student_id", Str("unknown")),
     error |-> error]
IsError(entry) == "error" \in DOMAIN entry

\* Mutant: a record that fails is logged and leaves no entry.
OnRecordError_Skip(entries, record, error) == entries

\* The except clause of predict_batch.
OnRecordError(entries, record, error) ==
    Append(entries, ErrorEntry(record, error))

\* predict_batch(students_data): the loop, record by record.  clock[i] is
\* what datetime.now() answers while record i is entered.
RECURSIVE PredictBatchFrom(_, _, _)
PredictBatchFrom(students, entries, clock) ==
    IF students = <<>> THEN entries
    ELSE LET record == Head(students)
             scored == PredictDropoutRisk(record)
         IN  PredictBatchFrom(
                 Tail(students),
                 IF scored.outcome = "ok"
                 THEN Append(entries,
                             SuccessEntry(record, scored, Head(clock)))
                 ELSE OnRecordError(entries, record, scored.outcome),
                 Tail(clock))
PredictBatch(students, clock) == PredictBatchFrom(students, <<>>, clock)

\* The readings of the clock during a batch of n records: it never runs
\* backwards.
Clocks(n) ==
    {clock \in [1 .. n -> 0 .. MaxClock] :
         \A i \in 1 .. n - 1 : clock[i] <= clock[i + 1]}

\* r.get('probability', 0) > self.high_risk_threshold
IsHighRisk(entry) ==
    /\ "probability" \in DOMAIN entry
    /\ FloatGt(D(entry.probability), D(high_risk_threshold))
\* send_alerts(results): the students alerted, in order.
HighRiskStudents(entries) == SelectSeq(entries, IsHighRisk)

\* The records the encoding is checked on: every subset of the keys, in
\* every order, with every value below.
CellValues ==
    [student_id |-> {Str("S1")},
     gender |-> {Str("F"), Str("M"), Str("X")},
     age |-> {Num(18), Str("abc")},
     fee_default_rate |-> {Num(30), Num(70)},
     name |-> {Str("n")}]
RECURSIVE RecordsOver(_)
RecordsOver(keys) ==
    IF keys = {} THEN {<<>>}
    ELSE UNION {{Append(d, <<k, v>>) :
                     d \in RecordsOver(keys \ {k}), v \in CellValues[k]} :
                k \in keys}
StudentRecords == UNION {RecordsOver(keys) : keys \in SUBSET DOMAIN CellValues}

\* The records the batches are made of: well-formed ones on and around the
\* thresholds, a malformed one and an anonymous malformed one.
Student(id, fee) ==
    <<<<"student_id", Str(id)>>, <<"gender", Str("M")>>, <<"age", Num(18)>>,
      <<"fee_default_rate", Num(fee)>>>>
Malformed(id) ==
    <<<<"student_id", Str(id)>>, <<"age", Str("abc")>>,
      <<"fee_default_rate", Num(71)>>>>
Anonymous == <<<<"age", Str("abc")>>>>
BatchRecords ==
    {Student("S1", 29), Student("S2", 69), Student("S3", 70),
     Student("S4", 71), Malformed("S5")}
\* The records scored one by one: every probability in hundredths, in and
\* out of feature order, and the records of the batches.
ScoredRecords ==
    {Student("S1", p) : p \in Hundredths}
        \cup {<<<<"fee_default_rate", Num(p)>>, <<"gender", Str("X")>>>> :
                  p \in Hundredths}
        \cup BatchRecords \cup {Anonymous}
\* The batches the scheduled daily job fetches.
ScheduledBatches == {<<>>, <<Student("S3", 70)>>, <<Malformed("S5")>>}
\* The batches handed to predict_batch directly: records that score and a
\* record that does not, in every arrangement.
PredictorBatches ==
    UNION {[1 .. n -> {Student("S1", 29), Student("S3", 70), Malformed("S5")}] :
               n \in 0 .. MaxBatch}
StudentBatches ==
    UNION {[1 .. n -> BatchRecords] : n \in 0 .. MaxBatch}

VARIABLES
    active,               \* the file at model_path
    backup,               \* the file at model_path + ".backup"
    performance_history,  \* self.performance_history
    pc,                   \* retrain_model: 0 not running, i about to make
                          \* dump i of RetrainWrites, Len + 1 about to return
    call,                 \* the locals of the retrain_model call running
    passes,               \* training passes fitted so far
    last,                 \* the last call completed and what it returned
    pre,                  \* the slots and the history when that call began
    lifecycle             \* the retrain -> arbitrate run under way

VARIABLES
    student_data,         \* the record handed to the predictor
    processed_data,       \* what preprocess_new_student made of it
    prediction,           \* what predict_dropout_risk returned for it
    students_data,        \* the batch handed to predict_batch
    results,              \* what predict_batch returned for it
    alerts,               \* the alerts handed to the notifier, in order
    job,                  \* process_daily_predictions: the statement it is at
    steps,                \* the statements the daily job has carried out
    returned              \* the predictor or monitor call that returned last

VARIABLES
    superseded,           \* the artifacts overwritten in the active slot
    rival,                \* a second retrain_model call on the same model_path
    model_artifacts,      \* self.model_artifacts of the monitor's predictor
    cycle,                \* the active slot when the daily job began, and the
                          \* artifact the job scored with
    loop,                 \* start_monitoring: "off", "polling", the task it
                          \* is running, or "stopped"
    log                   \* the tasks start_monitoring has run, and how each
                          \* ended

maintenanceVars == <<active, backup, performance_history, pc, call, passes,
                     last, pre, lifecycle, superseded>>
predictorVars == <<student_data, processed_data, prediction, students_data,
                   results, returned>>
monitorVars == <<alerts, job, steps>>
schedulerVars == <<model_artifacts, cycle, loop, log>>
vars == <<active, backup, performance_history, pc, call, passes, last, pre,
          lifecycle, student_data, processed_data, prediction, students_data,
          results, alerts, job, steps, returned, superseded, rival,
          model_artifacts, cycle, loop, log>>

NoBatch == [rows |-> 0, hasTarget |-> FALSE]
NoMetrics == [old_accuracy |-> 0, new_accuracy |-> 0, old_f1 |-> 0, new_f1 |-> 0]
NoCall == [batch |-> NoBatch, old_artifacts |-> NoArtifact,
           new_artifacts |-> NoArtifact, accuracy |-> 0, touched |-> {}]
Stable == [stage |-> "stable", incumbent |-> Missing, candidate |-> -1]

NoRival == [pc |-> 0, call |-> NoCall]
NoCycle == [active |-> Missing, scored_with |-> NoArtifact]

Snapshot == [active |-> active, backup |-> backup,
             performance_history |-> performance_history]

\* The record of a completed call.  outcome is "ok" or the place of the error;
\* raised says whether the error reached the caller.
Completed(op, outcome, raised, ret, batch, new_model, metrics, touched) ==
    [op |-> op, outcome |-> outcome, raised |-> raised, ret |-> ret,
     batch |-> batch, new_model |-> new_model, metrics |-> metrics,
     touched |-> touched]

Init ==
    /\ active \in {Stored(InitialArtifact), Missing}
    /\ backup = Missing
    /\ performance_history = <<>>
    /\ pc = 0
    /\ call = NoCall
    /\ passes = 0
    /\ last = Completed("none", "ok", FALSE, FALSE, NoBatch, -1, NoMetrics, {})
    /\ pre = Snapshot
    /\ lifecycle = Stable
    /\ student_data = <<>>
    /\ processed_data = <<>>
    /\ prediction = NoPrediction
    /\ students_data = <<>>
    /\ results = <<>>
    /\ returned = "none"
    /\ alerts = <<>>
    /\ job = "idle"
    /\ steps = <<>>
    /\ superseded = {}
    /\ rival = NoRival
    /\ model_artifacts = active.content
    /\ cycle = NoCycle
    /\ loop = "off"
    /\ log = <<>>

\* A model that was fitted outside retrain_model.
ExternalModel == MaxRetrains + 1

(***************************************************************************)
(* check_model_drift(new_data, target_col): one call, start to return.      *)
(***************************************************************************)
DriftReturns(outcome, ret, batch) ==
    /\ last' = Completed("check_model_drift", outcome, FALSE, ret, batch, -1,
                         NoMetrics, {})
    /\ pre' = Snapshot
    /\ UNCHANGED <<active, backup, pc, call, passes, lifecycle, superseded>>

\* new_data.empty, or target_col not in new_data.columns: return False.
DriftInvalid(batch) ==
    /\ pc = 0
    /\ batch.rows = 0 \/ ~batch.hasTarget
    /\ DriftReturns(IF batch.rows = 0 THEN "empty" ELSE "no_target", FALSE, batch)
    /\ UNCHANGED performance_history

\* joblib.load raises: both except clauses return False.
DriftLoadFails(batch) ==
    /\ pc = 0
    /\ batch.rows > 0 /\ batch.hasTarget
    /\ LoadError(active) # "ok"
    /\ DriftReturns(LoadError(active), FALSE, batch)
    /\ UNCHANGED performance_history

\* scaler.transform, model.predict or a metric raises: return False.
DriftScoringFails(batch) ==
    /\ pc = 0
    /\ batch.rows > 0 /\ batch.hasTarget
    /\ LoadError(active) = "ok"
    /\ DriftReturns("scoring", FALSE, batch)
    /\ UNCHANGED performance_history

\* Mutant: only the latest snapshot is kept.
StorePerformance_LatestOnly(history, performance) == <<performance>>

\* self.performance_history.append(performance)
StorePerformance(history, performance) == Append(history, performance)

\* The snapshot is appended and compared with the one before it.
DriftEvaluates(batch, accuracy, f1) ==
    /\ pc = 0
    /\ batch.rows > 0 /\ batch.hasTarget
    /\ LoadError(active) = "ok"
    /\ Len(performance_history) < MaxHistory
    /\ LET performance == [accuracy |-> accuracy, f1_score |-> f1,
                           samples |-> batch.rows]
           history == StorePerformance(performance_history, performance)
           n == Len(history)
           drift == /\ n > 1
                    /\ DriftDetected(history[n - 1].accuracy, accuracy)
       IN  /\ performance_history' = history
           /\ DriftReturns("ok", drift, batch)

check_model_drift(grid) ==
    \E batch \in Batches(LabeledRows) :
        \/ DriftInvalid(batch)
        \/ DriftLoadFails(batch)
        \/ DriftScoringFails(batch)
        \/ \E accuracy \in grid, f1 \in DriftF1Grid :
               DriftEvaluates(batch, accuracy, f1)

(***************************************************************************)
(* retrain_model(new_data, target_col).  The call is followed dump by dump: *)
(* a dump that fails leaves the file it was writing as the failure left it. *)
(***************************************************************************)
\* An exception leaves retrain_model: both except clauses log and re-raise.
RetrainRaises(outcome, batch, touched) ==
    /\ last' = Completed("retrain_model", outcome, TRUE, "error", batch, -1,
                         NoMetrics, touched)
    /\ pc' = 0
    /\ call' = NoCall
    /\ lifecycle' = Stable

\* The three ValueErrors of the precondition checks.
RetrainRejects(batch) ==
    /\ pc = 0
    /\ RetrainRejection(batch) # "ok"
    /\ RetrainRaises(RetrainRejection(batch), batch, {})
    /\ pre' = Snapshot
    /\ UNCHANGED <<active, backup, performance_history, passes, superseded>>

\* joblib.load(self.model_path) raises.
RetrainLoadFails(batch) ==
    /\ pc = 0
    /\ RetrainRejection(batch) = "ok"
    /\ LoadError(active) # "ok"
    /\ RetrainRaises(LoadError(active), batch, {})
    /\ pre' = Snapshot
    /\ UNCHANGED <<active, backup, performance_history, passes, superseded>>

\* train_test_split, the scaler or the classifier raises.
RetrainFitFails(batch) ==
    /\ pc = 0
    /\ RetrainRejection(batch) = "ok"
    /\ LoadError(active) = "ok"
    /\ RetrainRaises("fit", batch, {})
    /\ pre' = Snapshot
    /\ UNCHANGED <<active, backup, performance_history, passes, superseded>>

\* The new model is fitted and scored, new_artifacts is built.
RetrainFits(batch, accuracy) ==
    /\ pc = 0
    /\ RetrainRejection(batch) = "ok"
    /\ LoadError(active) = "ok"
    /\ passes < MaxRetrains
    /\ passes' = passes + 1
    /\ call' = [batch |-> batch,
                old_artifacts |-> active.content,
                new_artifacts |-> NewArtifacts(passes + 1, active.content),
                accuracy |-> accuracy,
                touched |-> {}]
    /\ pc' = 1
    /\ pre' = Snapshot
    /\ lifecycle' = Stable
    /\ UNCHANGED <<active, backup, performance_history, last, superseded>>

\* Dump pc of RetrainWrites: old_artifacts to the backup slot, new_artifacts to
\* the active slot.
RetrainDumps(outcome) ==
    /\ pc \in 1 .. Len(RetrainWrites)
    /\ LET slot == RetrainWrites[pc]
           touched == IF outcome = "refused" THEN call.touched
                      ELSE call.touched \cup {slot}
       IN  /\ IF slot = "backup"
              THEN /\ backup' = Dump(backup, DumpValue(slot, call), outcome)
                   /\ UNCHANGED active
              ELSE /\ active' = Dump(active, DumpValue(slot, call), outcome)
                   /\ UNCHANGED backup
           /\ IF DumpAborts(slot, outcome)
              THEN RetrainRaises("dump_" \o slot, call.batch, touched)
              ELSE /\ pc' = pc + 1
                   /\ call' = [call EXCEPT !.touched = touched]
                   /\ UNCHANGED <<last, lifecycle>>
           /\ superseded' = IF slot = "active" /\ outcome # "refused"
                                /\ Loadable(active)
                             THEN superseded \cup {active.content}
                             ELSE superseded
    /\ UNCHANGED <<performance_history, passes, pre>>

\* return new_model, accuracy
RetrainReturns ==
    /\ pc = Len(RetrainWrites) + 1
    /\ last' = Completed("retrain_model", "ok", FALSE,
                         <<call.new_artifacts.model, call.accuracy>>,
                         call.batch, -1, NoMetrics, call.touched)
    /\ lifecycle' = [stage |-> "retrained", incumbent |-> pre.active,
                     candidate |-> call.new_artifacts.model]
    /\ pc' = 0
    /\ call' = NoCall
    /\ UNCHANGED <<active, backup, performance_history, passes, pre,
                   superseded>>

retrain_model ==
    \/ \E batch \in Batches(RetrainRows) :
           \/ RetrainRejects(batch)
           \/ RetrainLoadFails(batch)
           \/ RetrainFitFails(batch)
           \/ \E accuracy \in HoldoutGrid : RetrainFits(batch, accuracy)
    \/ \E outcome \in DumpOutcomes : RetrainDumps(outcome)
    \/ RetrainReturns

(***************************************************************************)
(* run_ab_test(new_model, test_data, target_col): one call, start to        *)
(* return.  The metrics of a model on a batch are a function of the model:  *)
(* a model scored against itself gets its own metrics.                      *)
(***************************************************************************)
AbReturns(outcome, verdict, batch, new_model, metrics) ==
    /\ last' = Completed("run_ab_test", outcome, FALSE, verdict, batch,
                         new_model, metrics, {})
    /\ pre' = Snapshot
    /\ lifecycle' = IF lifecycle.stage = "retrained"
                       /\ lifecycle.candidate = new_model
                    THEN [lifecycle EXCEPT !.stage = "arbitrated"]
                    ELSE Stable
    /\ UNCHANGED <<active, backup, performance_history, pc, call, passes,
                   superseded>>

\* The two ValueErrors of the input checks, caught by except Exception.
AbInvalid(new_model, batch) ==
    /\ pc = 0
    /\ batch.rows = 0 \/ ~batch.hasTarget
    /\ LET error == IF batch.rows = 0 THEN "empty" ELSE "no_target"
       IN  AbReturns(error, AbErrorVerdict(error), batch, new_model, NoMetrics)

\* joblib.load(self.model_path) raises.
AbLoadFails(new_model, batch) ==
    /\ pc = 0
    /\ batch.rows > 0 /\ batch.hasTarget
    /\ LoadError(active) # "ok"
    /\ AbReturns(LoadError(active), AbErrorVerdict(LoadError(active)), batch,
                 new_model, NoMetrics)

\* scaler.transform, a predict of either model, or a metric raises.
AbScoringFails(new_model, batch) ==
    /\ pc = 0
    /\ batch.rows > 0 /\ batch.hasTarget
    /\ LoadError(active) = "ok"
    /\ AbReturns("scoring", AbErrorVerdict("scoring"), batch, new_model,
                 NoMetrics)

\* Both models are scored and the margins decide.
AbDecides(new_model, batch, metrics) ==
    /\ pc = 0
    /\ batch.rows > 0 /\ batch.hasTarget
    /\ LoadError(active) = "ok"
    /\ new_model = active.content.model =>
           /\ metrics.new_accuracy = metrics.old_accuracy
           /\ metrics.new_f1 = metrics.old_f1
    /\ AbReturns("ok", AbDecision(metrics), batch, new_model, metrics)

run_ab_test(grid) ==
    \E new_model \in (0 .. passes) \cup {ExternalModel},
       batch \in Batches(LabeledRows) :
        \/ AbInvalid(new_model, batch)
        \/ AbLoadFails(new_model, batch)
        \/ AbScoringFails(new_model, batch)
        \/ \E metrics \in [old_accuracy : grid, new_accuracy : grid,
                           old_f1 : grid, new_f1 : grid] :
               AbDecides(new_model, batch, metrics)

(***************************************************************************)
(* Specifications.                                                          *)
(***************************************************************************)
Next ==
    \/ check_model_drift(LifecycleDriftGrid) /\ UNCHANGED <<predictorVars, monitorVars, schedulerVars, rival>>
    \/ retrain_model /\ UNCHANGED <<predictorVars, monitorVars, schedulerVars, rival>>
    \/ run_ab_test(LifecycleGrid) /\ UNCHANGED <<predictorVars, monitorVars, schedulerVars, rival>>

\* The lifecycle: any sequence of calls on one ModelMaintenance.
Spec == Init /\ [][Next]_vars

\* One arbitration, over the wide grid of metrics, against the store as
\* deployed or never deployed.
NextArbitration ==
    /\ last.op = "none"
    /\ run_ab_test(ArbitrationGrid)
    /\ UNCHANGED <<predictorVars, monitorVars, schedulerVars, rival>>

SpecArbitration == Init /\ [][NextArbitration]_vars

\* Drift evaluations alone, over the wide grid of accuracies.
NextDrift ==
    check_model_drift(DriftGrid) /\ UNCHANGED <<predictorVars, monitorVars, schedulerVars, rival>>

SpecDrift == Init /\ [][NextDrift]_vars

(***************************************************************************)
(* DropoutPredictor: each call on one record or one batch, start to return. *)
(***************************************************************************)
\* The predictor is constructed on the artifact deployed (a missing file
\* raises FileNotFoundError out of the constructor).
InitPredictor == Init /\ Loadable(active)

preprocess_new_student ==
    \E record \in StudentRecords :
        /\ returned = "none"
        /\ student_data' = record
        /\ processed_data' = PreprocessNewStudent(record)
        /\ returned' = "preprocess_new_student"
        /\ UNCHANGED <<prediction, students_data, results>>
        /\ UNCHANGED <<maintenanceVars, monitorVars, schedulerVars, rival>>

predict_dropout_risk ==
    \E record \in ScoredRecords :
        /\ returned = "none"
        /\ student_data' = record
        /\ processed_data' = PreprocessNewStudent(record)
        /\ prediction' = PredictDropoutRisk(record)
        /\ returned' = "predict_dropout_risk"
        /\ UNCHANGED <<students_data, results>>
        /\ UNCHANGED <<maintenanceVars, monitorVars, schedulerVars, rival>>

predict_batch ==
    \E batch \in PredictorBatches :
        /\ returned = "none"
        /\ students_data' = batch
        /\ \E clock \in Clocks(Len(batch)) :
               results' = PredictBatch(batch, clock)
        /\ returned' = "predict_batch"
        /\ UNCHANGED <<student_data, processed_data, prediction>>
        /\ UNCHANGED <<maintenanceVars, monitorVars, schedulerVars, rival>>

\* The feature reconciliation of check_model_drift, retrain_model and
\* run_ab_test on the columns of their batch: absent features are added and
\* the columns put in the order of the artifact.
ReconcileFeatures(row) ==
    Reorder(EnsureFeatures(row, feature_names), feature_names)
MaintenanceCalls == {"check_model_drift", "retrain_model", "run_ab_test"}
reconcile_features ==
    \E row \in StudentRecords, consumer \in MaintenanceCalls :
        /\ returned = "none"
        /\ student_data' = row
        /\ processed_data' = ReconcileFeatures(row)
        /\ returned' = consumer
        /\ UNCHANGED <<prediction, students_data, results>>
        /\ UNCHANGED <<maintenanceVars, monitorVars, schedulerVars, rival>>

NextPredictor ==
    \/ preprocess_new_student
    \/ predict_dropout_risk
    \/ predict_batch
    \/ reconcile_features

\* One call on a predictor, over every record and every batch.
SpecPredictor == InitPredictor /\ [][NextPredictor]_vars

(***************************************************************************)
(* RealTimeMonitor.process_daily_predictions, statement by statement.  The  *)
(* job is called directly (loop = "off") or by start_monitoring.            *)
(***************************************************************************)
\* A task returns: run_pending goes on to the sleep.
TaskEnds(task, outcome) ==
    /\ loop' = IF loop = "off" THEN "off" ELSE "polling"
    /\ log' = IF loop = "off" THEN log
              ELSE Append(log, [task |-> task, outcome |-> outcome])

\* fetch_new_data: the rows of the last day, none when the query fails.
FetchNewData(batch) ==
    /\ job = "idle"
    /\ loop \in {"off", "daily"}
    /\ students_data' = batch
    /\ steps' = <<"fetch">>
    /\ cycle' = [active |-> active, scored_with |-> NoArtifact]
    /\ IF batch = <<>>
       THEN /\ job' = "done"
            /\ returned' = "process_daily_predictions"
            /\ TaskEnds("daily", "no_data")
       ELSE /\ job' = "score"
            /\ UNCHANGED <<returned, loop, log>>
    /\ UNCHANGED <<student_data, processed_data, prediction, results, alerts,
                   model_artifacts>>
    /\ UNCHANGED <<maintenanceVars, rival>>

\* results = self.predictor.predict_batch(students_data), with the artifact
\* the predictor was constructed on.
ScoreBatch ==
    /\ job = "score"
    /\ loop \in {"off", "daily"}
    /\ \E clock \in Clocks(Len(students_data)) :
           results' = PredictBatch(students_data, clock)
    /\ cycle' = [cycle EXCEPT !.scored_with = model_artifacts]
    /\ steps' = Append(steps, "score")
    /\ job' = "save"
    /\ UNCHANGED <<student_data, processed_data, prediction, students_data,
                   alerts, returned, model_artifacts, loop, log>>
    /\ UNCHANGED <<maintenanceVars, rival>>

\* self.save_predictions(results)
SavePredictions ==
    /\ job = "save"
    /\ loop \in {"off", "daily"}
    /\ steps' = Append(steps, "save")
    /\ job' = "alert"
    /\ UNCHANGED <<predictorVars, alerts, schedulerVars>>
    /\ UNCHANGED <<maintenanceVars, rival>>

\* self.send_alerts(results): one alert for each high-risk entry; send_alert
\* catches what goes wrong and never raises.
SendAlerts ==
    /\ job = "alert"
    /\ loop \in {"off", "daily"}
    /\ alerts' = alerts \o [i \in DOMAIN HighRiskStudents(results) |->
                               HighRiskStudents(results)[i].student_id]
    /\ steps' = Append(steps, "alert")
    /\ job' = "done"
    /\ returned' = "process_daily_predictions"
    /\ TaskEnds("daily", "ok")
    /\ UNCHANGED <<student_data, processed_data, prediction, students_data,
                   results, model_artifacts, cycle>>
    /\ UNCHANGED <<maintenanceVars, rival>>

process_daily_predictions(batches) ==
    \/ \E batch \in batches : FetchNewData(batch)
    \/ ScoreBatch
    \/ SavePredictions
    \/ SendAlerts

NextMonitor == process_daily_predictions(StudentBatches)

\* One run of the daily job of a monitor, over every batch fetched.
SpecMonitor == InitPredictor /\ [][NextMonitor]_vars

(***************************************************************************)
(* RealTimeMonitor.start_monitoring: the polling loop, the tasks it runs,   *)
(* and a retrain_model by a ModelMaintenance on the same model_path.        *)
(***************************************************************************)
ScheduledTasks == {"daily", "quality"}

\* The two tasks are scheduled and the loop is entered.
StartMonitoring ==
    /\ loop = "off"
    /\ job = "idle"
    /\ returned = "none"
    /\ loop' = "polling"
    /\ UNCHANGED <<model_artifacts, cycle, log>>
    /\ UNCHANGED <<maintenanceVars, predictorVars, monitorVars, rival>>

\* schedule.run_pending() finds a task due and calls it.
RunPending(task) ==
    /\ loop = "polling"
    /\ Len(log) < MaxTasks
    /\ loop' = task
    /\ job' = IF task = "daily" THEN "idle" ELSE "query"
    /\ steps' = <<>>
    /\ UNCHANGED <<model_artifacts, cycle, log, alerts>>
    /\ UNCHANGED <<maintenanceVars, predictorVars, rival>>

\* validate_data_quality: the count query and the report of it.
validate_data_quality ==
    /\ loop = "quality"
    /\ job = "query"
    /\ steps' = Append(steps, "query")
    /\ job' = "done"
    /\ TaskEnds("quality", "ok")
    /\ UNCHANGED <<model_artifacts, cycle, alerts>>
    /\ UNCHANGED <<maintenanceVars, predictorVars, rival>>

\* Mutant: the error leaves the task, and the except clause of
\* start_monitoring ends the loop.
OnTaskError_Propagates(task) == "stopped"

\* except Exception in the task: the error is logged and the task returns.
OnTaskError(task) == "polling"

\* The statement the task is at raises an Exception.
TaskFails ==
    /\ loop \in ScheduledTasks
    /\ job # "done"
    /\ steps' = Append(steps, "error")
    /\ job' = "done"
    /\ loop' = OnTaskError(loop)
    /\ log' = Append(log, [task |-> loop, outcome |-> "error"])
    /\ UNCHANGED <<model_artifacts, cycle, alerts>>
    /\ UNCHANGED <<maintenanceVars, predictorVars, rival>>

\* KeyboardInterrupt is raised in the main thread at whatever statement it
\* is executing; neither task catches it (except Exception does not), the
\* except clause of start_monitoring does.
Interrupt ==
    /\ loop \in {"polling"} \cup ScheduledTasks
    /\ loop' = "stopped"
    /\ UNCHANGED <<model_artifacts, cycle, log>>
    /\ UNCHANGED <<maintenanceVars, predictorVars, monitorVars, rival>>

start_monitoring ==
    \/ StartMonitoring
    \/ \E task \in ScheduledTasks : RunPending(task)
    \/ process_daily_predictions(ScheduledBatches)
    \/ validate_data_quality
    \/ TaskFails
    \/ Interrupt

NextScheduler == start_monitoring

\* A monitor in its loop: tasks falling due, failing, and the interrupt.
SpecScheduler == InitPredictor /\ [][NextScheduler]_vars

NextMonitoring ==
    \/ start_monitoring
    \/ /\ loop # "off"
       /\ retrain_model
       /\ UNCHANGED <<predictorVars, monitorVars, schedulerVars, rival>>

\* A monitor in its loop while the model is retrained beside it.
SpecMonitoring == InitPredictor /\ [][NextMonitoring]_vars

(***************************************************************************)
(* A second retrain_model call on the same model_path, by another caller,   *)
(* while the first is under way.  It goes through the same statements.      *)
(***************************************************************************)
\* The rival call loads the active artifact, fits and builds new_artifacts.
RivalFits(batch, accuracy) ==
    /\ rival.pc = 0
    /\ RetrainRejection(batch) = "ok"
    /\ LoadError(active) = "ok"
    /\ passes < MaxRetrains
    /\ passes' = passes + 1
    /\ rival' = [pc |-> 1,
                 call |-> [batch |-> batch,
                           old_artifacts |-> active.content,
                           new_artifacts |->
                               NewArtifacts(passes + 1, active.content),
                           accuracy |-> accuracy,
                           touched |-> {}]]
    /\ UNCHANGED <<active, backup, superseded>>

\* Dump rival.pc of RetrainWrites, by the rival call.
RivalDumps(outcome) ==
    /\ rival.pc \in 1 .. Len(RetrainWrites)
    /\ LET slot == RetrainWrites[rival.pc]
           touched == IF outcome = "refused" THEN rival.call.touched
                      ELSE rival.call.touched \cup {slot}
       IN  /\ IF slot = "backup"
              THEN /\ backup' = Dump(backup, DumpValue(slot, rival.call),
                                     outcome)
                   /\ UNCHANGED active
              ELSE /\ active' = Dump(active, DumpValue(slot, rival.call),
                                     outcome)
                   /\ UNCHANGED backup
           /\ rival' = IF DumpAborts(slot, outcome) THEN NoRival
                       ELSE [pc |-> rival.pc + 1,
                             call |-> [rival.call EXCEPT !.touched = touched]]
           /\ superseded' = IF slot = "active" /\ outcome # "refused"
                                /\ Loadable(active)
                             THEN superseded \cup {active.content}
                             ELSE superseded
    /\ UNCHANGED passes

\* The rival call returns.
RivalReturns ==
    /\ rival.pc = Len(RetrainWrites) + 1
    /\ rival' = NoRival
    /\ UNCHANGED <<active, backup, superseded, passes>>

rival_retrain_model ==
    /\ \/ \E batch \in Batches({MaxRows}), accuracy \in HoldoutGrid :
              RivalFits(batch, accuracy)
       \/ \E outcome \in DumpOutcomes : RivalDumps(outcome)
       \/ RivalReturns
    /\ UNCHANGED <<performance_history, pc, call, last, pre, lifecycle>>

NextConcurrent ==
    \/ retrain_model /\ UNCHANGED <<predictorVars, monitorVars, schedulerVars, rival>>
    \/ rival_retrain_model /\ UNCHANGED <<predictorVars, monitorVars, schedulerVars>>

\* Two callers retraining on one model_path.
SpecConcurrent == Init /\ [][NextConcurrent]_vars

(***************************************************************************)
(* Properties.                                                              *)
(***************************************************************************)
\* A retrain_model call has returned or raised and nothing was called since.
RetrainReturned == pc = 0 /\ last.op = "retrain_model"
RetrainSucceeded == RetrainReturned /\ last.outcome = "ok"
RetrainRejected ==
    RetrainReturned /\ last.outcome \in {"empty", "no_target", "insufficient"}
RetrainFailedLate ==
    RetrainReturned /\ last.outcome \notin {"ok", "empty", "no_target", "insufficient"}
\* The slots the retrain_model call running, or just over, wrote or began to write.
RetrainTouched ==
    IF pc # 0 THEN call.touched
    ELSE IF last.op = "retrain_model" THEN last.touched ELSE {}
AbReturned == pc = 0 /\ last.op = "run_ab_test"

\* C1: a successful retrain returns the candidate model with its holdout
\* accuracy and leaves the active slot holding the artifact it held before the
\* call.
C1_RetrainLeavesActiveSlot ==
    RetrainSucceeded =>
        /\ last.ret[1] = passes
        /\ last.ret[2] \in HoldoutGrid
        /\ active = pre.active

\* C2: when the arbitration of a retrain -> arbitrate run scores both models
\* and returns "old", the active slot holds the artifact that was active before
\* the retrain.
C2_LoserNeverActive ==
    (/\ AbReturned
     /\ lifecycle.stage = "arbitrated"
     /\ last.outcome = "ok"
     /\ last.ret = "old") =>
        active = lifecycle.incumbent

\* C3: whenever retrain has overwritten the active slot (wholly or in part), the
\* backup slot holds the artifact that was active when that retrain began.
C3_BackupBeforeOverwrite ==
    "active" \in RetrainTouched => backup = pre.active

\* C3 witness: a retrain stands between its save and its return, the active
\* slot rewritten, the incumbent in the backup slot.
C3_Witness ==
    /\ pc = Len(RetrainWrites) + 1
    /\ "active" \in call.touched
    /\ active # pre.active
    /\ Loadable(pre.active)
    /\ backup = pre.active

\* C4 as claimed: after any retrain call, however it ended, the backup slot
\* holds the artifact that was active when the call began.
C4_BackupAfterAnyRetrain ==
    RetrainReturned => backup = pre.active

\* C4 amended: after a retrain call that succeeded, or that failed only in
\* saving the new artifact, the backup slot holds the artifact that was active
\* when the call began; after a call that raised before that (precondition,
\* load, split or fit, backup dump) the active slot still holds it, and the
\* backup slot is as it was unless it was the backup dump that failed.
C4_BackupAfterCompletedBackup ==
    RetrainReturned =>
        IF last.outcome \in {"ok", "dump_active"}
        THEN backup = pre.active
        ELSE /\ active = pre.active
             /\ last.outcome # "dump_backup" => backup = pre.backup

\* C4 witness: a retrain succeeded on an incumbent other than the one the
\* backup slot held, and the backup slot now holds that incumbent.
C4_Witness ==
    /\ RetrainSucceeded
    /\ Loadable(pre.backup)
    /\ pre.backup # pre.active
    /\ backup = pre.active
    /\ active # pre.active

\* C5: once an artifact has been stored, at least one of the two slots holds a
\* complete, loadable artifact, torn dumps included.
C5_OneSlotRecoverable ==
    (active # Missing \/ backup # Missing) => (Loadable(active) \/ Loadable(backup))

\* C5 witness: the save of retrain tore the active slot, the backup slot holds
\* a loadable artifact.
C5_Witness ==
    /\ RetrainReturned
    /\ last.outcome = "dump_active"
    /\ active = Corrupt
    /\ Loadable(backup)

\* C6: retrain is turned away by its precondition checks exactly when the batch
\* is empty, has no target column or has fewer than 10 rows, and a call turned
\* away leaves both slots and the performance history as they were.
C6_RejectionExact ==
    RetrainReturned =>
        /\ RetrainRejected <=>
               \/ last.batch.rows = 0
               \/ ~last.batch.hasTarget
               \/ last.batch.rows < 10
        /\ RetrainRejected =>
               /\ last.raised
               /\ active = pre.active
               /\ backup = pre.backup
               /\ performance_history = pre.performance_history

\* C6 witness: a batch of 9 rows was turned away with a backup on file and a
\* snapshot in the history.
C6_Witness ==
    /\ RetrainReturned
    /\ last.outcome = "insufficient"
    /\ last.batch.rows = 9
    /\ Loadable(backup)
    /\ Len(performance_history) > 0

\* C6 witness of the boundary: a batch of exactly 10 rows got past the checks.
C6_TenRowsPass ==
    RetrainSucceeded /\ last.batch.rows = 10

\* C7: a retrain that fails after its preconditions passed reports the failure
\* to its caller and leaves the incumbent in the active slot.
C7_FailedRetrainKeepsIncumbent ==
    RetrainFailedLate => (last.raised /\ active = pre.active)

\* C8: arbitration returns "new" exactly when the candidate's accuracy exceeds
\* the incumbent's by more than 0.02 and its F1 exceeds the incumbent's by more
\* than 0.02, the metrics taken as exact hundredths.
C8_MarginRule ==
    (AbReturned /\ last.outcome = "ok") =>
        (last.ret = "new" <=>
            /\ last.metrics.new_accuracy > last.metrics.old_accuracy + 2
            /\ last.metrics.new_f1 > last.metrics.old_f1 + 2)

SpecExampleOne ==
    [old_accuracy |-> 77, new_accuracy |-> 80, old_f1 |-> 68, new_f1 |-> 70]
SpecExampleTwo ==
    [old_accuracy |-> 77, new_accuracy |-> 80, old_f1 |-> 68, new_f1 |-> 68]
SpecExampleAbove ==
    [old_accuracy |-> 77, new_accuracy |-> 80, old_f1 |-> 68, new_f1 |-> 71]

C10_ErrorsFailSafe ==
    (AbReturned /\ last.outcome # "ok") => last.ret = "old"

\* C10 witness: arbitration found the active slot torn and returned "old".
C10_Witness ==
    /\ AbReturned
    /\ last.outcome = "Exception"
    /\ active = Corrupt
    /\ last.ret = "old"

DriftReturned == pc = 0 /\ last.op = "check_model_drift"

\* C11: a drift evaluation or an arbitration handed an empty batch, or one
\* without the label column, reports an error to its caller and changes
\* neither slot nor the performance history.
C11_InvalidInputReported ==
    (/\ DriftReturned \/ AbReturned
     /\ last.outcome \in {"empty", "no_target"}) =>
        /\ last.raised
        /\ active = pre.active
        /\ backup = pre.backup
        /\ performance_history = pre.performance_history

\* C12: a drift evaluation that completes signals drift exactly when the
\* history then holds at least 2 snapshots and the accuracy before the new one
\* exceeds the new one by more than 0.05, the accuracies taken as exact
\* hundredths.
C12_DriftRule ==
    (DriftReturned /\ last.outcome = "ok") =>
        LET n == Len(performance_history)
        IN  last.ret <=>
                /\ n >= 2
                /\ performance_history[n - 1].accuracy
                       - performance_history[n].accuracy > 5

\* A step of check_model_drift: the only steps that begin and end outside of
\* retrain_model and leave a check_model_drift as the last call.
DriftStep == pc = 0 /\ pc' = 0 /\ last'.op = "check_model_drift"

\* C13: the performance history only grows at its tail: a drift evaluation
\* that completes appends exactly one snapshot, one that fails appends none,
\* and no step of retrain_model or run_ab_test, nor any other, changes, drops
\* or reorders a snapshot.
C13_HistoryAppendOnly ==
    [][/\ Len(performance_history') >= Len(performance_history)
       /\ SubSeq(performance_history', 1, Len(performance_history))
              = performance_history
       /\ Len(performance_history') - Len(performance_history)
              = IF DriftStep /\ last'.outcome = "ok" THEN 1 ELSE 0]_vars

\* C13 witness: a second snapshot was appended behind a first, and a retrain
\* and an arbitration went by with both in place.
C13_Witness ==
    /\ Len(performance_history) = 2
    /\ performance_history[1].accuracy # performance_history[2].accuracy
    /\ AbReturned
    /\ lifecycle.stage = "arbitrated"

\* A predict_dropout_risk call has returned a tuple.
RiskReturned == returned = "predict_dropout_risk" /\ prediction.outcome = "ok"

\* C14: every probability scored gets exactly one risk level: "Green" iff it
\* is below 0.3, "Amber" iff it is at least 0.3 and below 0.7, "Red" iff it
\* is at least 0.7; so 0.3 is "Amber" and 0.7 is "Red".
C14_RiskBands ==
    RiskReturned =>
        LET p == prediction.probability
        IN  /\ prediction.risk_level \in {"Green", "Amber", "Red"}
            /\ prediction.risk_level = "Green" <=> p < 30
            /\ prediction.risk_level = "Amber" <=> (30 <= p /\ p < 70)
            /\ prediction.risk_level = "Red" <=> p >= 70

\* C14 witness: a record scored at exactly 0.7 comes back "Red".
C14_Witness ==
    /\ RiskReturned
    /\ prediction.probability = 70
    /\ prediction.risk_level = "Red"

\* The daily job has gone through send_alerts and ended.
AlertsSent == job = "done" /\ Len(steps) > 1 /\ steps[Len(steps)] = "alert"
IsRed(entry) == ~IsError(entry) /\ entry.risk_level = "Red"
StudentIds(entries) == [i \in DOMAIN entries |-> entries[i].student_id]

\* C15: of the results handed to send_alerts, every entry whose risk level is
\* "Red" is alerted, one of probability exactly 0.7 included, and no other
\* entry is.
C15_AlertsForHighBand ==
    AlertsSent => alerts = StudentIds(SelectSeq(results, IsRed))

BatchReturned == returned = "predict_batch"

\* C16: predict_batch returns one entry for each record, in the order of the
\* records: the success entry of a record that scores, the error entry, under
\* the record's id, of one that does not; what another record does changes
\* nothing in it.
C16_BatchIsolation ==
    BatchReturned =>
        /\ Len(results) = Len(students_data)
        /\ \A i \in DOMAIN students_data :
               LET record == students_data[i]
                   scored == PredictDropoutRisk(record)
               IN  /\ i \in DOMAIN results
                   /\ results[i].student_id = Get(record, "student_id", Str(""))
                   /\ IsError(results[i]) <=> scored.outcome # "ok"
                   /\ ~IsError(results[i]) =>
                          results[i] = SuccessEntry(record, scored,
                                                    results[i].timestamp)

\* C16 witness: five records, the third malformed, give four results and one
\* error, the error in third place.
C16_Witness ==
    /\ BatchReturned
    /\ Len(students_data) = 5
    /\ Len(results) = 5
    /\ \A i \in 1 .. 5 : IsError(results[i]) <=> i = 3

EncodeReturned == returned = "preprocess_new_student"

\* C17: whatever features the record lacks, preprocess_new_student succeeds,
\* and the row it returns holds 0 at the place of each feature the record
\* lacks and the record's value, encoded where an encoder is fitted, at the
\* place of each feature it has.
C17_MissingFeaturesDefault ==
    EncodeReturned =>
        /\ Len(processed_data) = Len(feature_names)
        /\ \A i \in DOMAIN feature_names :
               LET feature == feature_names[i]
                   value == processed_data[i][2]
               IN  /\ i \in DOMAIN processed_data
                   /\ feature \notin Keys(student_data) => value = Num(0)
                   /\ (/\ feature \in Keys(student_data)
                       /\ feature \notin DOMAIN label_encoders) =>
                          value = Get(student_data, feature, Num(0))
                   /\ (/\ feature \in Keys(student_data)
                       /\ feature \in DOMAIN label_encoders) =>
                          /\ value.isnum
                          /\ value.n \in 0 .. Len(label_encoders[feature]) - 1

\* C17 witness: a record with a gender and neither age nor fee_default_rate
\* is encoded with 0 in both places.
C17_Witness ==
    /\ EncodeReturned
    /\ Keys(student_data) \cap {"gender", "age", "fee_default_rate"} = {"gender"}
    /\ Len(processed_data) = 3
    /\ processed_data[2][2] = Num(0)
    /\ processed_data[3][2] = Num(0)

\* The place of a feature in the row handed to the scaler.
Position(feature) == CHOOSE i \in DOMAIN feature_names : feature_names[i] = feature

RowReady ==
    returned \in {"preprocess_new_student", "predict_dropout_risk"}
                     \cup MaintenanceCalls

\* C19: whatever the order of the record's keys and whatever other keys it
\* has, the row made of it has exactly the columns of feature_names, in that
\* order; scoring one record or a batch, drift evaluation, retraining and
\* arbitration never hand their scaler columns in another order.
C19_FeatureOrder ==
    /\ RowReady => Columns(processed_data) = feature_names
    /\ BatchReturned =>
           \A i \in DOMAIN students_data :
               Columns(PreprocessNewStudent(students_data[i])) = feature_names

\* C19 witness: a record of five keys that begins with fee_default_rate and
\* has a name, which is no feature, is encoded into the three features in
\* training order.
C19_Witness ==
    /\ EncodeReturned
    /\ Len(student_data) = 5
    /\ student_data[1][1] = "fee_default_rate"
    /\ "name" \in Keys(student_data)
    /\ Columns(processed_data) = <<"gender", "age", "fee_default_rate">>

JobDone == job = "done"
\* The places at which a statement was carried out in the run.
Places(step) == {i \in DOMAIN steps : steps[i] = step}
Before(first, second) ==
    \A j \in Places(second) : \E i \in Places(first) : i < j

\* C20: every run of the daily job scores the batch, then evaluates drift,
\* retrains, arbitrates and promotes or rolls back only after that, and ends
\* with a summary alert, whatever happened before.
C20_DailyJobComposes ==
    JobDone =>
        /\ Places("score") # {} => Places("evaluate") # {}
        /\ Before("score", "evaluate")
        /\ Before("evaluate", "retrain")
        /\ Before("retrain", "arbitrate")
        /\ steps # <<>>
        /\ steps[Len(steps)] = "summary"

\* The daily job under way or last run has scored its batch.
CycleScored == cycle.scored_with # NoArtifact

\* C21: a scoring cycle of the running monitor scores with the artifact that
\* is in the active slot when the cycle begins, so a cycle that begins after
\* the slot was replaced scores with the new artifact.
C21_ScoresWithActive ==
    (CycleScored /\ Loadable(cycle.active)) =>
        cycle.scored_with = cycle.active.content

\* A retrain_model call has loaded the incumbent and not yet finished its
\* write of the active slot.
InFlight(at) == at \in 1 .. Len(RetrainWrites)

\* C22: of two lifecycle sequences started on one active slot the second is
\* turned away: never are both between loading the incumbent and writing
\* the active slot, so neither overwrites what the other wrote.
C22_OneSequenceInFlight == ~(InFlight(pc) /\ InFlight(rival.pc))

\* A scheduled task is part-way: begun and neither returned nor failed.
TaskInFlight == job \notin {"idle", "done"}

\* C23: an interrupt takes effect only at the sleep and poll boundary of
\* start_monitoring: when the loop has stopped, no task is left part-way,
\* since a task the interrupt found executing ran to its end first.
C23_InterruptAtPollBoundary == loop = "stopped" => ~TaskInFlight

\* Every training pass so far was a retrain_model that made both its dumps
\* and returned.
OnlySuccessfulRetrains ==
    /\ pc = 0 /\ rival.pc = 0
    /\ Loadable(active) /\ active.content.model = passes
    /\ Cardinality(superseded) = passes

\* C24: every artifact that was active and has been overwritten, by the
\* latest retrain or by an earlier one, can still be loaded from a backup.
C24_SupersededRecoverable ==
    OnlySuccessfulRetrains =>
        \A artifact \in superseded :
            Loadable(backup) /\ backup.content = artifact

\* Two places of the batch that hold the same record.
SameRecord(i, j) ==
    /\ i \in DOMAIN students_data /\ j \in DOMAIN students_data
    /\ i \in DOMAIN results /\ j \in DOMAIN results
    /\ students_data[i] = students_data[j]
\* An entry without the time it was made at.
Untimed(entry) ==
    IF IsError(entry) THEN entry
    ELSE [student_id |-> entry.student_id, prediction |-> entry.prediction,
          probability |-> entry.probability, risk_level |-> entry.risk_level]

StoredArtifacts == {slot.content : slot \in {s \in {active, backup} : Loadable(s)}}

\* C26 as claimed: model, scaler, encoders and feature_names of every
\* artifact on file come from one and the same training pass.
C26_OnePassArtifacts ==
    \A a \in StoredArtifacts :
        /\ a.model = a.scaler
        /\ a.scaler = a.label_encoders
        /\ a.label_encoders = a.feature_names

\* C26: model and scaler of every artifact on file come from one and the
\* same training pass; encoders and feature_names are both those of the
\* initial artifact, whatever pass fitted the model.
C26_ModelAndScalerOnePass ==
    \A a \in StoredArtifacts :
        /\ a.model = a.scaler
        /\ a.label_encoders = InitialArtifact.label_encoders
        /\ a.feature_names = InitialArtifact.feature_names

\* C26 witness: a retrain has saved an artifact whose model and scaler are
\* of its own pass and whose encoders are the initial ones, and backed up
\* the one before.
C26_Witness ==
    /\ RetrainSucceeded
    /\ Loadable(active) /\ Loadable(backup)
    /\ active.content.model = 1 /\ active.content.scaler = 1
    /\ active.content.label_encoders = 0

\* An arbitration that scored both models has closed a retrain -> arbitrate
\* run on the candidate of that retrain.
RunArbitrated ==
    AbReturned /\ last.outcome = "ok" /\ lifecycle.stage = "arbitrated"

\* C27: in a run retrain -> arbitrate, the incumbent that arbitration loads
\* is the artifact that was active before the retrain began, a model other
\* than the candidate.
C27_ArbitratesAgainstIncumbent ==
    RunArbitrated =>
        /\ pre.active = lifecycle.incumbent
        /\ pre.active.content.model # last.new_model

\* No snapshot of the history is more than the threshold below the one
\* before it.
GentleDecline ==
    \A i \in 2 .. Len(performance_history) :
        performance_history[i - 1].accuracy - performance_history[i].accuracy
            <= DriftThreshold

\* C28: the verdict looks at the last two snapshots only: in a history where
\* each accuracy is at most 0.05 below the one before it, no evaluation
\* signals drift, however far the accuracy has fallen in all.
C28_GentleDeclineNeverDrifts ==
    (DriftReturned /\ last.outcome = "ok" /\ GentleDecline) => ~last.ret

\* C29: the artifact a successful retrain produces has the feature_names of
\* the artifact that was active when the retrain began, so the feature order
\* of every artifact on file is that of the initial artifact.
C29_FeatureOrderInherited ==
    /\ pc > 0 => call.new_artifacts.feature_names
                     = call.old_artifacts.feature_names
    /\ (RetrainSucceeded /\ Loadable(active) /\ Loadable(pre.active)) =>
           active.content.feature_names = pre.active.content.feature_names
    /\ \A slot \in {active, backup} :
           Loadable(slot) =>
               slot.content.feature_names = InitialArtifact.feature_names

\* C29 witness: after a second successful retrain the active artifact, of
\* the second pass, still has the initial feature order.
C29_Witness ==
    /\ RetrainSucceeded
    /\ Loadable(active)
    /\ active.content.model = 2
    /\ active.content.feature_names = InitialArtifact.feature_names

\* A task run by the loop ends in this step with an error.
TaskFailsNow ==
    /\ loop \in ScheduledTasks
    /\ Len(log') = Len(log) + 1
    /\ log'[Len(log')].outcome = "error"

\* C30: an error raised in a scheduled task, at whatever statement, is caught
\* in the task: the task returns, the loop is polling again and goes on to
\* the tasks that fall due later.
C30_FailureKeepsLoop ==
    /\ [][TaskFailsNow => loop' = "polling" /\ job' = "done"]_vars
    /\ []((loop = "polling" /\ Len(log) < MaxTasks) =>
              \A task \in ScheduledTasks : ENABLED RunPending(task))

\* C30 witness: the daily job failed while saving, and the loop then ran the
\* next daily job to its end.
C30_Witness ==
    /\ loop = "polling"
    /\ Len(log) = 2
    /\ log[1] = [task |-> "daily", outcome |-> "error"]
    /\ log[2] = [task |-> "daily", outcome |-> "ok"]
    /\ steps = <<"fetch", "score", "save", "alert">>

=============================================================================
